---------------------------- MODULE Spec2Model ----------------------------
(***************************************************************************)
(* A model of the read-only FAT32 driver (crate fat32): boot sector,       *)
(* directory entries, FAT walker and the Fat32FileSystem navigator.        *)
(*                                                                         *)
(* The device is a byte image, exactly as the driver sees it: every field  *)
(* is decoded from the bytes at the offsets of the packed structs.  Byte   *)
(* offset k of a buffer b is b[k+1] (sequences start at 1).                *)
(*                                                                         *)
(* A u32 that may exceed 2^31-1 (a product or a sum of the sector          *)
(* arithmetic) is carried as two 16-bit halves [hi, lo], because the       *)
(* model checker's integers are 32-bit signed.  Cluster numbers and sizes  *)
(* stored on the images of this model stay below 2^31 and are integers.    *)
(***************************************************************************)
EXTENDS Integers, Sequences, FiniteSets, TLC

VARIABLES
    device,             \* Fat32FileSystem.device: the bytes of the TestDevice
    overflow_checks,    \* build profile: TRUE = arithmetic overflow panics
    state,              \* "unmounted" | "mounted" | "mount_failed" | "dead"
    current_directory,  \* Fat32FileSystem.current_directory
    last,               \* the last call on the navigator and its outcome
    fat_cache,          \* FatTable.cache of the stand-alone FAT walker
    walk,               \* cluster_chain in progress on the stand-alone walker
    fat_last            \* the last next_cluster call on the stand-alone walker

vars == <<device, overflow_checks, state, current_directory, last,
          fat_cache, walk, fat_last>>

-----------------------------------------------------------------------------
(* Bytes and fixed-width arithmetic *)

Zeros(n) == [i \in 1..n |-> 0]

Pad(s, n) == s \o Zeros(n - Len(s))

Min(a, b) == IF a <= b THEN a ELSE b

\* u16::to_le_bytes / u32::to_le_bytes, used to lay out the images
LE16b(x) == <<x % 256, x \div 256>>

LE32b(x) == <<x % 256, (x \div 256) % 256, (x \div 65536) % 256, x \div 16777216>>

\* little-endian field reads of a packed struct
U8(b, off) == b[off + 1]

LE16(b, off) == b[off + 1] + 256 * b[off + 2]

LE32(b, off) ==
    b[off + 1] + 256 * b[off + 2] + 65536 * b[off + 3] + 16777216 * b[off + 4]

\* a u32 as two 16-bit halves
Wide(x) == [hi |-> x \div 65536, lo |-> x % 65536]

\* the halves h and l of a result brought back to 16 bits each: the wrapped
\* u32 and whether it overflowed 32 bits
Carry(h, l) ==
    [ovf |-> h + (l \div 65536) >= 65536,
     w |-> [hi |-> (h + (l \div 65536)) % 65536, lo |-> l % 65536]]

\* u32 * small: the wrapped product and whether it overflowed 32 bits
WideMul(a, m) == Carry(a.hi * m, a.lo * m)

\* u32 + u32: the wrapped sum and whether it overflowed 32 bits
WideAdd(a, b) == Carry(a.hi + b.hi, a.lo + b.lo)

\* u32 / d and u32 % d for a divisor d <= 2^14
WideDiv(a, d) == (a.hi \div d) * 65536 + (((a.hi % d) * 65536 + a.lo) \div d)

WideMod(a, d) == ((a.hi % d) * 65536 + a.lo) % d


-----------------------------------------------------------------------------
(* The device images.  Layout of an image: sector 0 boot sector, then the  *)
(* reserved sectors, one FAT, and the data clusters 2..9.                   *)

\* a boot sector with the fields the driver reads (offsets of BootSector)
BootBytes(o) ==
    Pad(Zeros(11) \o LE16b(o.bps) \o <<o.spc>> \o LE16b(o.reserved) \o <<o.nf>>
        \o Zeros(19) \o LE32b(o.fatsz) \o Zeros(4) \o LE32b(o.root)
        \o Zeros(18) \o <<o.sig>>, 512)

\* a 32-byte directory record
DirRec(name, attr, clhi, cllo, size) ==
    name \o <<attr>> \o Zeros(8) \o LE16b(clhi) \o Zeros(4) \o LE16b(cllo)
         \o LE32b(size)

\* a stored FAT entry: 28 value bits and the 4 reserved top bits
FatEnt(v, top) ==
    <<v % 256, (v \div 256) % 256, (v \div 65536) % 256, (v \div 16777216) + 16 * top>>

Sp(n) == [i \in 1..n |-> 32]

Name83(base, ext) == base \o Sp(8 - Len(base)) \o ext \o Sp(3 - Len(ext))

nDOCS   == Name83(<<68, 79, 67, 83>>, <<>>)
nATXT   == Name83(<<65>>, <<84, 88, 84>>)
nBTXT   == Name83(<<66>>, <<84, 88, 84>>)
nREADME == Name83(<<82, 69, 65, 68, 77, 69>>, <<84, 88, 84>>)
nEMPTY  == Name83(<<69, 77, 80, 84, 89>>, <<>>)
nEMPTYT == Name83(<<69, 77, 80, 84, 89>>, <<84, 88, 84>>)
nDOT    == Name83(<<46>>, <<>>)
nDOTDOT == Name83(<<46, 46>>, <<>>)
nSub    == Name83(<<115, 117, 98>>, <<>>)
nHUGE   == Name83(<<72, 85, 71, 69>>, <<66, 73, 78>>)
nBAD    == Name83(<<66, 65, 68>>, <<>>)
nLOOP   == Name83(<<76, 79, 79, 80>>, <<>>)
nMID    == Name83(<<77, 73, 68>>, <<>>)
nBIG    == Name83(<<66, 73, 71>>, <<>>)
nGHOST  == Name83(<<71, 72, 79, 83, 84>>, <<>>)
nVOL    == Name83(<<86, 79, 76>>, <<>>)
nLFN    == <<65, 100, 0, 111, 0, 99, 0, 115, 0, 32, 0>>
nFREE   == <<229, 79, 67, 83, 32, 32, 32, 32, 32, 32, 32>>

FreeRec == DirRec(nFREE, 16, 0, 8, 0)

\* root directory, first cluster: 16 records and no end record
RootA ==
    DirRec(nVOL, 8, 0, 0, 0) \o DirRec(nLFN, 15, 0, 0, 0)
    \o DirRec(nDOCS, 32, 0, 9, 3) \o FreeRec
    \o DirRec(nDOCS, 16, 0, 5, 0) \o DirRec(nATXT, 32, 0, 9, 5)
    \o DirRec(nREADME, 32, 0, 0, 0) \o DirRec(nEMPTY, 16, 0, 4, 0)
    \o FreeRec \o FreeRec \o FreeRec \o FreeRec
    \o FreeRec \o FreeRec \o FreeRec \o FreeRec

\* root directory, second cluster: an end record followed by a record
RootB ==
    DirRec(nBAD, 16, 0, 0, 0) \o DirRec(nLOOP, 16, 0, 10, 0)
    \o DirRec(nMID, 16, 0, 12, 0) \o DirRec(nBIG, 16, 16384, 5, 0)
    \o DirRec(nDOCS, 16, 0, 8, 0) \o DirRec(nVOL, 24, 0, 5, 0)
    \o Zeros(32) \o DirRec(nGHOST, 16, 0, 5, 0)

\* an empty directory: the first record is the end record
EmptyDir == Zeros(32) \o DirRec(nGHOST, 16, 0, 5, 0)

DocsDir ==
    DirRec(nDOT, 16, 0, 5, 0) \o DirRec(nDOTDOT, 16, 0, 0, 0)
    \o DirRec(nATXT, 32, 0, 6, 600) \o DirRec(nEMPTYT, 32, 0, 1, 0)
    \o DirRec(nSub, 16, 0, 8, 0) \o DirRec(nHUGE, 32, 0, 9, 2000)
    \o DirRec(nBTXT, 32, 0, 9, 10)

\* a subdirectory with two records of the same name
SubDir ==
    DirRec(nDOT, 16, 0, 8, 0) \o DirRec(nDOTDOT, 16, 0, 5, 0)
    \o DirRec(nATXT, 33, 0, 7, 4) \o DirRec(nATXT, 32, 0, 6, 2)

FileData(a, b, n) == [i \in 1..n |-> (a * i + b) % 256]

\* the FAT: 2 -> 3, 6 -> 7, a cycle 10 <-> 11, a reserved entry after 12
StdFat ==
    FatEnt(268435448, 0) \o FatEnt(268435455, 15)
    \o FatEnt(3, 0) \o FatEnt(268435455, 0) \o FatEnt(268435448, 0)
    \o FatEnt(268435455, 15) \o FatEnt(7, 10) \o FatEnt(268435451, 0)
    \o FatEnt(268435455, 0) \o FatEnt(268435455, 0)
    \o FatEnt(11, 0) \o FatEnt(10, 0) \o FatEnt(13, 0) \o FatEnt(1, 0)
    \o FatEnt(0, 1) \o FatEnt(1, 15) \o FatEnt(268435447, 0) \o FatEnt(2, 0)

StdClusters(csize) ==
    <<RootA, RootB, EmptyDir, DocsDir, FileData(7, 1, csize),
      FileData(3, 2, csize), SubDir, FileData(1, 64, csize)>>

RECURSIVE Concat(_, _)
Concat(ss, n) == IF ss = <<>> THEN <<>> ELSE Pad(Head(ss), n) \o Concat(Tail(ss), n)

StdBoot == [bps |-> 512, spc |-> 1, reserved |-> 2, nf |-> 1, fatsz |-> 1,
            root |-> 2, sig |-> 41]

\* the boot sectors of the volumes.  1: the standard volume; 2: two sectors
\* per cluster; 3: the root is cluster 5; 4: a valid boot sector over
\* zero-filled FAT and data (the integration tests' fixture); 5: no boot
\* signature
BootParams ==
    << StdBoot, [StdBoot EXCEPT !.spc = 2], [StdBoot EXCEPT !.root = 5, !.sig = 40],
       StdBoot, [StdBoot EXCEPT !.sig = 0] >>

\* sector 0 of each volume.  Fat32FileSystem.boot_sector holds these bytes:
\* it is read once at mount and the device never changes
Boots == [vol \in 1..5 |-> BootBytes(BootParams[vol])]

BuildImage(vol, fat, clusters) ==
    Boots[vol] \o Zeros(512 * (BootParams[vol].reserved - 1))
    \o Pad(fat, 512 * BootParams[vol].fatsz)
    \o Concat(clusters, 512 * BootParams[vol].spc)

Images ==
    << BuildImage(1, StdFat, StdClusters(512)),
       BuildImage(2, StdFat, StdClusters(1024)),
       BuildImage(3, StdFat, StdClusters(512)),
       BuildImage(4, <<>>, <<Zeros(512), Zeros(512)>>),
       BuildImage(5, StdFat, StdClusters(512)) >>

-----------------------------------------------------------------------------
(* BlockDevice: the integration tests' TestDevice over an image *)

\* TestDevice::read_sector: len bytes at byte offset sector * 512, or IoError
\* when they do not lie inside the image.  The sector is a u32 in halves.
read_sector(dev, sector, len) ==
    IF sector.hi > 0 \/ sector.lo * 512 + len > Len(dev)
    THEN [k |-> "Err", e |-> "IoError", v |-> <<>>]
    ELSE [k |-> "Ok", e |-> "",
          v |-> SubSeq(dev, sector.lo * 512 + 1, sector.lo * 512 + len)]

-----------------------------------------------------------------------------
(* BootSector: the accessors take the 512-byte buffer read at mount *)

bytes_per_sector(b) == LE16(b, 11)
sectors_per_cluster(b) == U8(b, 13)
reserved_sector_count(b) == LE16(b, 14)
num_fats(b) == U8(b, 16)
fat_size_16(b) == LE16(b, 22)
fat_size_32(b) == LE32(b, 36)
root_cluster(b) == LE32(b, 44)
boot_signature(b) == U8(b, 66)

\* validate as it would be without the test of the FAT count
validate_NoFatCount(b) ==
    IF boot_signature(b) # 40 /\ boot_signature(b) # 41
    THEN "InvalidBootSector"
    ELSE IF bytes_per_sector(b) \notin {512, 1024, 2048, 4096}
    THEN "InvalidBootSector"
    ELSE "Ok"

validate(b) ==
    IF boot_signature(b) # 40 /\ boot_signature(b) # 41
    THEN "InvalidBootSector"
    ELSE IF bytes_per_sector(b) \notin {512, 1024, 2048, 4096}
    THEN "InvalidBootSector"
    ELSE IF num_fats(b) = 0
    THEN "InvalidBootSector"
    ELSE "Ok"

cluster_size(b) == bytes_per_sector(b) * sectors_per_cluster(b)

fat_size(b) == IF fat_size_16(b) # 0 THEN fat_size_16(b) ELSE fat_size_32(b)

first_fat_sector(b) == reserved_sector_count(b)

\* reserved + num_fats * fat_size, wrapped to 32 bits, and whether it overflowed
first_data_sector(b) ==
    LET Sum(p, s) == [ovf |-> p.ovf \/ s.ovf, w |-> s.w]
        Add(p) == Sum(p, WideAdd(Wide(reserved_sector_count(b)), p.w))
    IN  Add(WideMul(Wide(fat_size(b)), num_fats(b)))

\* Fat32FileSystem.boot_sector of the navigator over device dev
BootOf(dev) == SubSeq(dev, 1, 512)


-----------------------------------------------------------------------------
(* DirectoryEntry: an entry is its 32 raw bytes *)

is_free(e) == U8(e, 0) = 229

\* is_end as it would be with a blank first byte taken for the end marker
is_end_Blank(e) == U8(e, 0) = 32

is_end(e) == U8(e, 0) = 0

is_valid(e) == ~is_free(e) /\ ~is_end(e)

attributes(e) == U8(e, 11)

\* FileAttributes: bit tests on the attribute byte
is_directory(a) == (a \div 16) % 2 = 1

is_long_name(a) == a % 16 = 15

is_volume_id(a) == (a \div 8) % 2 = 1

first_cluster(e) == LE16(e, 20) * 65536 + LE16(e, 26)

file_size(e) == LE32(e, 28)

is_dot(e) == U8(e, 0) = 46 /\ U8(e, 1) = 32

is_dot_dot(e) == U8(e, 0) = 46 /\ U8(e, 1) = 46 /\ U8(e, 2) = 32

\* core::str::from_utf8(..).is_ok(): well-formed UTF-8
RECURSIVE Utf8Ok(_)
Utf8Ok(s) ==
    LET n == Len(s)
        Cont(i) == i <= n /\ s[i] >= 128 /\ s[i] <= 191
        In(i, lo, hi) == i <= n /\ s[i] >= lo /\ s[i] <= hi
        Rest(k) == Utf8Ok(SubSeq(s, k + 1, n))
    IN  IF n = 0 THEN TRUE
        ELSE IF s[1] < 128 THEN Rest(1)
        ELSE IF s[1] >= 194 /\ s[1] <= 223 THEN Cont(2) /\ Rest(2)
        ELSE IF s[1] = 224 THEN In(2, 160, 191) /\ Cont(3) /\ Rest(3)
        ELSE IF s[1] = 237 THEN In(2, 128, 159) /\ Cont(3) /\ Rest(3)
        ELSE IF s[1] >= 225 /\ s[1] <= 239 THEN Cont(2) /\ Cont(3) /\ Rest(3)
        ELSE IF s[1] = 240 THEN In(2, 144, 191) /\ Cont(3) /\ Cont(4) /\ Rest(4)
        ELSE IF s[1] = 244 THEN In(2, 128, 143) /\ Cont(3) /\ Cont(4) /\ Rest(4)
        ELSE IF s[1] >= 241 /\ s[1] <= 243 THEN Cont(2) /\ Cont(3) /\ Cont(4) /\ Rest(4)
        ELSE FALSE

\* the UTF-8 encodings of the White_Space characters str::trim_end removes
WhiteSpace ==
    {<<c>> : c \in {9, 10, 11, 12, 13, 32}}
    \cup {<<194, 133>>, <<194, 160>>, <<225, 154, 128>>}
    \cup {<<226, 128, c>> : c \in (128..138) \cup {168, 169, 175}}
    \cup {<<226, 129, 159>>, <<227, 128, 128>>}

RECURSIVE trim_end(_)
trim_end(s) ==
    LET n == Len(s)
        cut == {k \in 1..3 : k <= n /\ SubSeq(s, n - k + 1, n) \in WhiteSpace}
    IN  IF cut = {} THEN s
        ELSE trim_end(SubSeq(s, 1, n - (CHOOSE k \in cut : TRUE)))

\* from_utf8(bytes).unwrap_or("").trim_end()
NamePart(bytes) == IF Utf8Ok(bytes) THEN trim_end(bytes) ELSE <<>>

short_name(e) ==
    LET Format(name_part, ext_part) ==
            IF ext_part = <<>> THEN name_part ELSE name_part \o <<46>> \o ext_part
    IN  Format(NamePart(SubSeq(e, 1, 8)), NamePart(SubSeq(e, 9, 11)))

\* u8::to_ascii_lowercase
Lower(c) == IF c >= 65 /\ c <= 90 THEN c + 32 ELSE c

\* str::eq_ignore_ascii_case
eq_ignore_ascii_case(a, b) ==
    Len(a) = Len(b) /\ \A i \in 1..Len(a) : Lower(a[i]) = Lower(b[i])

-----------------------------------------------------------------------------
(* FatTable.  A table is [dev, cache]; cache is <<>> (None) or one pair     *)
(* <<[sector, data]>>.  Every operation also returns rd, the sectors it     *)
(* asked the device for, in order.                                          *)

FatTable_new(dev) == [dev |-> dev, cache |-> <<>>]

\* read_fat_sector as it would be if any cached sector were taken for the
\* one asked for
read_fat_sector_AnyHit(t, sector) ==
    IF t.cache # <<>>
    THEN [k |-> "Ok", e |-> "", v |-> t.cache[1].data, t |-> t, rd |-> <<>>]
    ELSE LET Read(r) ==
                 IF r.k = "Err"
                 THEN [k |-> "Err", e |-> r.e, v |-> <<>>, t |-> t,
                       rd |-> <<Wide(sector)>>]
                 ELSE [k |-> "Ok", e |-> "", v |-> r.v,
                       t |-> [t EXCEPT !.cache = <<[sector |-> sector, data |-> r.v]>>],
                       rd |-> <<Wide(sector)>>]
         IN  Read(read_sector(t.dev, Wide(sector), bytes_per_sector(BootOf(t.dev))))

read_fat_sector(t, sector) ==
    IF t.cache # <<>> /\ t.cache[1].sector = sector
    THEN [k |-> "Ok", e |-> "", v |-> t.cache[1].data, t |-> t, rd |-> <<>>]
    ELSE LET Read(r) ==
                 IF r.k = "Err"
                 THEN [k |-> "Err", e |-> r.e, v |-> <<>>, t |-> t,
                       rd |-> <<Wide(sector)>>]
                 ELSE [k |-> "Ok", e |-> "", v |-> r.v,
                       t |-> [t EXCEPT !.cache = <<[sector |-> sector, data |-> r.v]>>],
                       rd |-> <<Wide(sector)>>]
         IN  Read(read_sector(t.dev, Wide(sector), bytes_per_sector(BootOf(t.dev))))

\* u32::from_le_bytes(..) & 0x0FFFFFFF
MaskedEntry(data, off) ==
    data[off + 1] + 256 * data[off + 2] + 65536 * data[off + 3]
        + 16777216 * (data[off + 4] % 16)

\* the match on the masked entry
Classify(entry) ==
    IF entry >= 268435448 /\ entry <= 268435455 THEN [k |-> "Err", e |-> "EndOfChain", v |-> 0]
    ELSE IF entry = 0 \/ entry = 1 THEN [k |-> "Err", e |-> "InvalidCluster", v |-> 0]
    ELSE [k |-> "Ok", e |-> "", v |-> entry]

\* next_cluster as it would be without the test of cluster < 2
next_cluster_NoGuard(t, oc, cluster) ==
    LET Entry(sector_data, c) ==
            [k |-> c.k, e |-> c.e, v |-> c.v, t |-> sector_data.t, rd |-> sector_data.rd]
        Sector(sector_data, entry_offset) ==
            IF sector_data.k = "Err"
            THEN [k |-> "Err", e |-> sector_data.e, v |-> 0, t |-> sector_data.t,
                  rd |-> sector_data.rd]
            ELSE Entry(sector_data, Classify(MaskedEntry(sector_data.v, entry_offset)))
        Offset(fat_offset, bytes_per_sec, first_fat) ==
            IF fat_offset.ovf /\ oc
            THEN [k |-> "Panic", e |-> "overflow", v |-> 0, t |-> t, rd |-> <<>>]
            ELSE Sector(read_fat_sector(t, first_fat + WideDiv(fat_offset.w, bytes_per_sec)),
                        WideMod(fat_offset.w, bytes_per_sec))
    IN  Offset(WideMul(Wide(cluster), 4), bytes_per_sector(BootOf(t.dev)),
               first_fat_sector(BootOf(t.dev)))

\* oc: the build checks arithmetic overflow (cluster * 4 panics instead of
\* wrapping)
next_cluster(t, oc, cluster) ==
    IF cluster < 2
    THEN [k |-> "Err", e |-> "InvalidCluster", v |-> 0, t |-> t, rd |-> <<>>]
    ELSE
    LET Entry(sector_data, c) ==
            [k |-> c.k, e |-> c.e, v |-> c.v, t |-> sector_data.t, rd |-> sector_data.rd]
        Sector(sector_data, entry_offset) ==
            IF sector_data.k = "Err"
            THEN [k |-> "Err", e |-> sector_data.e, v |-> 0, t |-> sector_data.t,
                  rd |-> sector_data.rd]
            ELSE Entry(sector_data, Classify(MaskedEntry(sector_data.v, entry_offset)))
        Offset(fat_offset, bytes_per_sec, first_fat) ==
            IF fat_offset.ovf /\ oc
            THEN [k |-> "Panic", e |-> "overflow", v |-> 0, t |-> t, rd |-> <<>>]
            ELSE Sector(read_fat_sector(t, first_fat + WideDiv(fat_offset.w, bytes_per_sec)),
                        WideMod(fat_offset.w, bytes_per_sec))
    IN  Offset(WideMul(Wide(cluster), 4), bytes_per_sector(BootOf(t.dev)),
               first_fat_sector(BootOf(t.dev)))

\* cluster_chain's loop state: pc is "loop" while the loop runs, then "ok"
\* (the chain is returned), "err" (e is returned) or "panic"
ChainStart(t, start_cluster) ==
    [pc |-> "loop", chain |-> <<>>, current |-> start_cluster, t |-> t,
     e |-> "", rd |-> <<>>]

\* ChainMatch as it would be with the push moved into the Ok arm: the last
\* cluster of a chain is never pushed
ChainMatch_PushOnOk(w, n) ==
    LET rd == w.rd \o n.rd
    IN  IF n.k = "Ok"
        THEN [w EXCEPT !.chain = Append(w.chain, w.current), !.current = n.v,
                       !.t = n.t, !.rd = rd]
        ELSE IF n.k = "Err" /\ n.e = "EndOfChain"
        THEN [w EXCEPT !.pc = "ok", !.t = n.t, !.rd = rd]
        ELSE IF n.k = "Err"
        THEN [w EXCEPT !.pc = "err", !.e = n.e, !.t = n.t, !.rd = rd]
        ELSE [w EXCEPT !.pc = "panic", !.e = n.e, !.t = n.t, !.rd = rd]

\* ChainMatch as it would be without the EndOfChain arm: the end of the
\* chain is returned as the error it is signalled with
ChainMatch_EndIsError(w, n) ==
    LET chain == Append(w.chain, w.current)
        rd == w.rd \o n.rd
    IN  IF n.k = "Ok"
        THEN [w EXCEPT !.chain = chain, !.current = n.v, !.t = n.t, !.rd = rd]
        ELSE IF n.k = "Err"
        THEN [w EXCEPT !.pc = "err", !.chain = chain, !.e = n.e, !.t = n.t, !.rd = rd]
        ELSE [w EXCEPT !.pc = "panic", !.chain = chain, !.e = n.e, !.t = n.t, !.rd = rd]

\* the body of the loop once next_cluster has answered n: the push and the
\* match on n
ChainMatch(w, n) ==
    LET chain == Append(w.chain, w.current)
        rd == w.rd \o n.rd
    IN  IF n.k = "Ok"
        THEN [w EXCEPT !.chain = chain, !.current = n.v, !.t = n.t, !.rd = rd]
        ELSE IF n.k = "Err" /\ n.e = "EndOfChain"
        THEN [w EXCEPT !.pc = "ok", !.chain = chain, !.t = n.t, !.rd = rd]
        ELSE IF n.k = "Err"
        THEN [w EXCEPT !.pc = "err", !.chain = chain, !.e = n.e, !.t = n.t, !.rd = rd]
        ELSE [w EXCEPT !.pc = "panic", !.chain = chain, !.e = n.e, !.t = n.t, !.rd = rd]

\* one iteration of the loop
chain_iter(w, oc) == ChainMatch(w, next_cluster(w.t, oc, w.current))

Range(s) == {s[i] : i \in 1..Len(s)}

\* The loop run to its end.  The device is read-only and next_cluster is a
\* function of it, so a walk that comes back to a cluster it has pushed
\* repeats for ever (the chain grows until memory runs out): "hang".
RECURSIVE ChainRun(_, _)
ChainRun(w, oc) ==
    IF w.pc # "loop" THEN w
    ELSE IF w.current \in Range(w.chain) THEN [w EXCEPT !.pc = "hang"]
    ELSE ChainRun(chain_iter(w, oc), oc)

cluster_chain(t, oc, start_cluster) ==
    LET Result(w) ==
            [k |-> CASE w.pc = "ok" -> "Ok" [] w.pc = "err" -> "Err"
                     [] w.pc = "panic" -> "Panic" [] OTHER -> "Hang",
             e |-> w.e, v |-> IF w.pc = "ok" THEN w.chain ELSE <<>>,
             t |-> w.t, rd |-> w.rd]
    IN  Result(ChainRun(ChainStart(t, start_cluster), oc))


-----------------------------------------------------------------------------
(* Fat32FileSystem.  self is [device, current_directory]; boot_sector is    *)
(* BootOf(self.device).  A result is [k, e, v, rd]: k is "Ok", "Err" (e is   *)
(* the Fat32Error), "Panic" or "Hang" (the call does not return).           *)

\* ((cluster - 2) * sectors_per_cluster) + first_data_sector(), wrapped, and
\* whether a step overflowed
cluster_to_sector(dev, cluster) ==
    LET Sum(sub, mul, fds, sum) ==
            [ovf |-> sub.ovf \/ mul.ovf \/ fds.ovf \/ sum.ovf, w |-> sum.w]
        Add(sub, mul, fds) == Sum(sub, mul, fds, WideAdd(mul.w, fds.w))
        Mul(sub, b) ==
            Add(sub, WideMul(sub.w, sectors_per_cluster(b)), first_data_sector(b))
    IN  Mul(IF cluster >= 2 THEN [ovf |-> FALSE, w |-> Wide(cluster - 2)]
            ELSE [ovf |-> TRUE, w |-> [hi |-> 65535, lo |-> 65534 + cluster]],
            BootOf(dev))

\* the loop of read_cluster from sector index i on; buf is what has been read
RECURSIVE ReadSectors(_, _, _, _, _, _)
ReadSectors(dev, oc, first_sector, i, buf, rd) ==
    LET Read(sec, r) ==
            IF r.k = "Err"
            THEN [k |-> "Err", e |-> r.e, v |-> <<>>, rd |-> Append(rd, sec.w)]
            ELSE ReadSectors(dev, oc, first_sector, i + 1, buf \o r.v,
                             Append(rd, sec.w))
        Sector(sec, b) ==
            IF sec.ovf /\ oc
            THEN [k |-> "Panic", e |-> "overflow", v |-> <<>>, rd |-> rd]
            ELSE Read(sec, read_sector(dev, sec.w, bytes_per_sector(b)))
        Loop(b) ==
            IF i >= sectors_per_cluster(b)
            THEN [k |-> "Ok", e |-> "", v |-> buf, rd |-> rd]
            ELSE Sector(WideAdd(first_sector, Wide(i)), b)
    IN  Loop(BootOf(dev))

read_cluster(dev, oc, cluster) ==
    LET From(first_sector) ==
            IF first_sector.ovf /\ oc
            THEN [k |-> "Panic", e |-> "overflow", v |-> <<>>, rd |-> <<>>]
            ELSE ReadSectors(dev, oc, first_sector.w, 0, <<>>, <<>>)
    IN  From(cluster_to_sector(dev, cluster))

\* data.chunks_exact(DirectoryEntry::SIZE)
chunks_exact(data) ==
    [j \in 1..(Len(data) \div 32) |-> SubSeq(data, 32 * (j - 1) + 1, 32 * j)]

\* the test that pushes an entry
Listed(e) ==
    is_valid(e) /\ ~is_long_name(attributes(e)) /\ ~is_volume_id(attributes(e))

\* DirLoop as it would be if the end record only left the inner loop: the
\* enumeration goes on with the next cluster of the chain
RECURSIVE DirLoop_NextCluster(_, _, _, _, _, _)
DirLoop_NextCluster(dev, oc, clusters, i, entries, rd) ==
    LET Scan(data, recs, ends) ==
            DirLoop_NextCluster(dev, oc, clusters, i + 1,
                entries \o SelectSeq(
                    SubSeq(recs, 1, IF ends = {} THEN Len(recs)
                                    ELSE (CHOOSE j \in ends : \A h \in ends : j <= h) - 1),
                    Listed),
                rd \o data.rd)
        Parse(data, recs) ==
            Scan(data, recs, {j \in 1..Len(recs) : is_end(recs[j])})
        Cluster(data) ==
            IF data.k # "Ok"
            THEN [k |-> data.k, e |-> data.e, v |-> <<>>, rd |-> rd \o data.rd]
            ELSE Parse(data, chunks_exact(data.v))
    IN  IF i > Len(clusters) THEN [k |-> "Ok", e |-> "", v |-> entries, rd |-> rd]
        ELSE Cluster(read_cluster(dev, oc, clusters[i]))

\* the loop of read_directory over clusters[i..]
RECURSIVE DirLoop(_, _, _, _, _, _)
DirLoop(dev, oc, clusters, i, entries, rd) ==
    LET Scan(data, recs, ends) ==
            IF ends # {}
            THEN [k |-> "Ok", e |-> "",
                  v |-> entries \o SelectSeq(
                      SubSeq(recs, 1, (CHOOSE j \in ends : \A h \in ends : j <= h) - 1),
                      Listed),
                  rd |-> rd \o data.rd]
            ELSE DirLoop(dev, oc, clusters, i + 1,
                         entries \o SelectSeq(recs, Listed), rd \o data.rd)
        Parse(data, recs) ==
            Scan(data, recs, {j \in 1..Len(recs) : is_end(recs[j])})
        Cluster(data) ==
            IF data.k # "Ok"
            THEN [k |-> data.k, e |-> data.e, v |-> <<>>, rd |-> rd \o data.rd]
            ELSE Parse(data, chunks_exact(data.v))
    IN  IF i > Len(clusters) THEN [k |-> "Ok", e |-> "", v |-> entries, rd |-> rd]
        ELSE Cluster(read_cluster(dev, oc, clusters[i]))

read_directory(dev, oc, cluster) ==
    LET Chain(clusters) ==
            IF clusters.k # "Ok"
            THEN [k |-> clusters.k, e |-> clusters.e, v |-> <<>>, rd |-> clusters.rd]
            ELSE DirLoop(dev, oc, clusters.v, 1, <<>>, clusters.rd)
    IN  Chain(cluster_chain(FatTable_new(dev), oc, cluster))

\* Iterator::find: the first element that satisfies the closure, as <<e>>, or
\* <<>>; hits are the indices of the elements that satisfy it
Find(entries, hits) ==
    IF hits = {} THEN <<>>
    ELSE <<entries[CHOOSE i \in hits : \A h \in hits : i <= h]>>

\* find_parent as it would be without the mapping of a recorded 0 to the root
find_parent_Recorded(dev, oc, cluster) ==
    LET Parent(entries, dd) ==
            IF dd = <<>>
            THEN [k |-> "Err", e |-> "NotFound", v |-> 0, rd |-> entries.rd]
            ELSE [k |-> "Ok", e |-> "", v |-> first_cluster(dd[1]), rd |-> entries.rd]
        Entries(entries) ==
            IF entries.k # "Ok"
            THEN [k |-> entries.k, e |-> entries.e, v |-> 0, rd |-> entries.rd]
            ELSE Parent(entries, Find(entries.v, {i \in 1..Len(entries.v) :
                                                     is_dot_dot(entries.v[i])}))
    IN  Entries(read_directory(dev, oc, cluster))

find_parent(dev, oc, cluster) ==
    LET Parent(entries, dd) ==
            IF dd = <<>>
            THEN [k |-> "Err", e |-> "NotFound", v |-> 0, rd |-> entries.rd]
            ELSE [k |-> "Ok", e |-> "",
                  v |-> IF first_cluster(dd[1]) = 0 THEN root_cluster(BootOf(dev))
                        ELSE first_cluster(dd[1]),
                  rd |-> entries.rd]
        Entries(entries) ==
            IF entries.k # "Ok"
            THEN [k |-> entries.k, e |-> entries.e, v |-> 0, rd |-> entries.rd]
            ELSE Parent(entries, Find(entries.v, {i \in 1..Len(entries.v) :
                                                     is_dot_dot(entries.v[i])}))
    IN  Entries(read_directory(dev, oc, cluster))

\* str::split('/')
RECURSIVE Split(_)
Split(s) ==
    LET seps == {i \in 1..Len(s) : s[i] = 47}
        i == CHOOSE j \in seps : \A h \in seps : j <= h
    IN  IF seps = {} THEN <<s>>
        ELSE <<SubSeq(s, 1, i - 1)>> \o Split(SubSeq(s, i + 1, Len(s)))

\* DirNamed as it would be with an exact comparison of the names
DirNamed_ExactCase(e, component) ==
    /\ is_directory(attributes(e))
    /\ ~is_dot(e)
    /\ ~is_dot_dot(e)
    /\ short_name(e) = component

\* the test of the find in resolve_path
DirNamed(e, component) ==
    /\ is_directory(attributes(e))
    /\ ~is_dot(e)
    /\ ~is_dot_dot(e)
    /\ eq_ignore_ascii_case(short_name(e), component)

\* the loop of resolve_path over components[i..]
RECURSIVE ResolveLoop(_, _, _, _, _, _)
ResolveLoop(dev, oc, components, i, current, rd) ==
    LET Up(parent) ==
            IF parent.k # "Ok"
            THEN [k |-> parent.k, e |-> parent.e, v |-> 0, rd |-> rd \o parent.rd]
            ELSE ResolveLoop(dev, oc, components, i + 1, parent.v, rd \o parent.rd)
        Down(entries, entry) ==
            IF entry = <<>>
            THEN [k |-> "Err", e |-> "NotFound", v |-> 0, rd |-> rd \o entries.rd]
            ELSE ResolveLoop(dev, oc, components, i + 1, first_cluster(entry[1]),
                             rd \o entries.rd)
        Entries(entries) ==
            IF entries.k # "Ok"
            THEN [k |-> entries.k, e |-> entries.e, v |-> 0, rd |-> rd \o entries.rd]
            ELSE Down(entries, Find(entries.v, {j \in 1..Len(entries.v) :
                                         DirNamed(entries.v[j], components[i])}))
        Step(component, next) ==
            IF component = <<>> \/ component = <<46>>
            THEN ResolveLoop(dev, oc, components, next, current, rd)
            ELSE IF component = <<46, 46>>
            THEN Up(find_parent(dev, oc, current))
            ELSE Entries(read_directory(dev, oc, current))
    IN  IF i > Len(components) THEN [k |-> "Ok", e |-> "", v |-> current, rd |-> rd]
        ELSE Step(components[i], i + 1)

resolve_path(self, oc, path) ==
    LET From(current, remaining) ==
            IF remaining = <<>>
            THEN [k |-> "Ok", e |-> "", v |-> current, rd |-> <<>>]
            ELSE ResolveLoop(self.device, oc, Split(remaining), 1, current, <<>>)
        Start(abs) ==
            From(IF abs THEN root_cluster(BootOf(self.device))
                 ELSE self.current_directory,
                 IF abs THEN Tail(path) ELSE path)
    IN  Start(path # <<>> /\ path[1] = 47)

\* str::rfind('/') as a byte offset, or -1 for None
rfind(path) ==
    LET Last(seps) ==
            IF seps = {} THEN -1 ELSE (CHOOSE j \in seps : \A h \in seps : j >= h) - 1
    IN  Last({i \in 1..Len(path) : path[i] = 47})

\* v is [dir_cluster, name]
parse_path(self, oc, path) ==
    LET Resolved(r, name) ==
            IF r.k # "Ok"
            THEN [k |-> r.k, e |-> r.e, rd |-> r.rd,
                  v |-> [dir_cluster |-> 0, name |-> name]]
            ELSE [k |-> "Ok", e |-> "", rd |-> r.rd,
                  v |-> [dir_cluster |-> r.v, name |-> name]]
        Parts(dir, name) ==
            IF dir = <<>>
            THEN [k |-> "Ok", e |-> "", rd |-> <<>>,
                  v |-> [dir_cluster |-> self.current_directory, name |-> name]]
            ELSE Resolved(resolve_path(self, oc, dir), name)
        At(pos) ==
            Parts(IF pos >= 0 THEN SubSeq(path, 1, pos) ELSE <<>>,
                  IF pos >= 0 THEN SubSeq(path, pos + 2, Len(path)) ELSE path)
    IN  At(rfind(path))

\* FileNamed as it would be without the test of the directory attribute
FileNamed_AnyKind(e, filename) ==
    eq_ignore_ascii_case(short_name(e), filename)

\* the test of the find in read_file
FileNamed(e, filename) ==
    ~is_directory(attributes(e)) /\ eq_ignore_ascii_case(short_name(e), filename)

\* the loop of read_file over clusters[i..]
RECURSIVE DataLoop(_, _, _, _, _, _)
DataLoop(dev, oc, clusters, i, data, rd) ==
    LET Cluster(c) ==
            IF c.k # "Ok"
            THEN [k |-> c.k, e |-> c.e, v |-> <<>>, rd |-> rd \o c.rd]
            ELSE DataLoop(dev, oc, clusters, i + 1, data \o c.v, rd \o c.rd)
    IN  IF i > Len(clusters) THEN [k |-> "Ok", e |-> "", v |-> data, rd |-> rd]
        ELSE Cluster(read_cluster(dev, oc, clusters[i]))

\* FileEmpty as it would be if "empty" were read off the first-cluster field
FileEmpty_NoCluster(e) == first_cluster(e) = 0

\* the test of the early return: entry.file_size == 0
FileEmpty(e) == file_size(e) = 0

\* Vec::truncate
truncate(data, len) == SubSeq(data, 1, Min(len, Len(data)))

read_file(self, oc, path) ==
    LET Data(entry, rd, data) ==
            IF data.k # "Ok"
            THEN [k |-> data.k, e |-> data.e, v |-> <<>>, rd |-> rd \o data.rd]
            ELSE [k |-> "Ok", e |-> "", v |-> truncate(data.v, file_size(entry)),
                  rd |-> rd \o data.rd]
        Chain(entry, rd, clusters) ==
            IF clusters.k # "Ok"
            THEN [k |-> clusters.k, e |-> clusters.e, v |-> <<>>,
                  rd |-> rd \o clusters.rd]
            ELSE Data(entry, rd \o clusters.rd,
                      DataLoop(self.device, oc, clusters.v, 1, <<>>, <<>>))
        Found(entry, rd) ==
            IF entry = <<>>
            THEN [k |-> "Err", e |-> "NotFound", v |-> <<>>, rd |-> rd]
            ELSE IF FileEmpty(entry[1])
            THEN [k |-> "Ok", e |-> "", v |-> <<>>, rd |-> rd]
            ELSE Chain(entry[1], rd,
                       cluster_chain(FatTable_new(self.device), oc,
                                     first_cluster(entry[1])))
        Entries(pp, entries) ==
            IF entries.k # "Ok"
            THEN [k |-> entries.k, e |-> entries.e, v |-> <<>>,
                  rd |-> pp.rd \o entries.rd]
            ELSE Found(Find(entries.v, {j \in 1..Len(entries.v) :
                                           FileNamed(entries.v[j], pp.v.name)}),
                       pp.rd \o entries.rd)
        Parsed(pp) ==
            IF pp.k # "Ok" THEN [k |-> pp.k, e |-> pp.e, v |-> <<>>, rd |-> pp.rd]
            ELSE Entries(pp, read_directory(self.device, oc, pp.v.dir_cluster))
    IN  Parsed(parse_path(self, oc, path))

\* path is <<>> (None) or <<p>> (Some(p))
list_dir(self, oc, path) ==
    LET Entries(cluster, entries) ==
            [k |-> entries.k, e |-> entries.e, v |-> entries.v,
             rd |-> cluster.rd \o entries.rd]
        Cluster(cluster) ==
            IF cluster.k # "Ok"
            THEN [k |-> cluster.k, e |-> cluster.e, v |-> <<>>, rd |-> cluster.rd]
            ELSE Entries(cluster, read_directory(self.device, oc, cluster.v))
    IN  Cluster(IF path # <<>> THEN resolve_path(self, oc, path[1])
                ELSE [k |-> "Ok", e |-> "", v |-> self.current_directory,
                      rd |-> <<>>])

\* change_dir as it would be with the assignment made before the target is
\* enumerated
change_dir_AssignFirst(self, oc, path) ==
    LET Entries(cluster, entries) ==
            [k |-> entries.k, e |-> entries.e,
             v |-> [self EXCEPT !.current_directory = cluster.v],
             rd |-> cluster.rd \o entries.rd]
        Cluster(cluster) ==
            IF cluster.k # "Ok"
            THEN [k |-> cluster.k, e |-> cluster.e, v |-> self, rd |-> cluster.rd]
            ELSE Entries(cluster, read_directory(self.device, oc, cluster.v))
    IN  Cluster(resolve_path(self, oc, path))

\* v is the navigator after the call
change_dir(self, oc, path) ==
    LET Entries(cluster, entries) ==
            IF entries.k # "Ok"
            THEN [k |-> entries.k, e |-> entries.e, v |-> self,
                  rd |-> cluster.rd \o entries.rd]
            ELSE [k |-> "Ok", e |-> "",
                  v |-> [self EXCEPT !.current_directory = cluster.v],
                  rd |-> cluster.rd \o entries.rd]
        Cluster(cluster) ==
            IF cluster.k # "Ok"
            THEN [k |-> cluster.k, e |-> cluster.e, v |-> self, rd |-> cluster.rd]
            ELSE Entries(cluster, read_directory(self.device, oc, cluster.v))
    IN  Cluster(resolve_path(self, oc, path))

\* Fat32FileSystem::new: v is the navigator
new(dev) ==
    LET Valid(buffer, ok) ==
            IF ok # "Ok" THEN [k |-> "Err", e |-> ok, v |-> <<>>]
            ELSE [k |-> "Ok", e |-> "",
                  v |-> <<[device |-> dev, current_directory |-> root_cluster(buffer)]>>]
        Sector(r) ==
            IF r.k = "Err" THEN [k |-> "Err", e |-> r.e, v |-> <<>>]
            ELSE Valid(r.v, validate(r.v))
    IN  Sector(read_sector(dev, Wide(0), 512))

current_dir(self) == self.current_directory


-----------------------------------------------------------------------------
(* The inputs: paths as byte strings *)

DirPaths ==
    {
      \* "/"
      <<47>>,
      \* ""
      <<>>,
      \* "DOCS"
      <<68, 79, 67, 83>>,
      \* "docs"
      <<100, 111, 99, 115>>,
      \* "/docs/sub"
      <<47, 100, 111, 99, 115, 47, 115, 117, 98>>,
      \* "/DOCS/.."
      <<47, 68, 79, 67, 83, 47, 46, 46>>,
      \* ".."
      <<46, 46>>,
      \* "."
      <<46>>,
      \* "/DOCS/./sub/../.."
      <<47, 68, 79, 67, 83, 47, 46, 47, 115, 117, 98, 47, 46, 46, 47, 46, 46>>,
      \* "///"
      <<47, 47, 47>>,
      \* "nonexistent"
      <<110, 111, 110, 101, 120, 105, 115, 116, 101, 110, 116>>,
      \* "/fake/path"
      <<47, 102, 97, 107, 101, 47, 112, 97, 116, 104>>,
      \* "README.TXT"
      <<82, 69, 65, 68, 77, 69, 46, 84, 88, 84>>,
      \* "/BAD"
      <<47, 66, 65, 68>>,
      \* "/LOOP"
      <<47, 76, 79, 79, 80>>,
      \* "/MID"
      <<47, 77, 73, 68>>,
      \* "/BIG"
      <<47, 66, 73, 71>>,
      \* "/EMPTY"
      <<47, 69, 77, 80, 84, 89>>,
      \* "sub"
      <<115, 117, 98>>,
      \* "/DOCS//sub/"
      <<47, 68, 79, 67, 83, 47, 47, 115, 117, 98, 47>>,
      \* "/./DOCS"
      <<47, 46, 47, 68, 79, 67, 83>>
    }

FilePaths ==
    {
      \* "/DOCS/A.TXT"
      <<47, 68, 79, 67, 83, 47, 65, 46, 84, 88, 84>>,
      \* "A.TXT"
      <<65, 46, 84, 88, 84>>,
      \* "/A.TXT"
      <<47, 65, 46, 84, 88, 84>>,
      \* "/docs/a.txt"
      <<47, 100, 111, 99, 115, 47, 97, 46, 116, 120, 116>>,
      \* "/DOCS/EMPTY.TXT"
      <<47, 68, 79, 67, 83, 47, 69, 77, 80, 84, 89, 46, 84, 88, 84>>,
      \* "/DOCS/HUGE.BIN"
      <<47, 68, 79, 67, 83, 47, 72, 85, 71, 69, 46, 66, 73, 78>>,
      \* "/DOCS/B.TXT"
      <<47, 68, 79, 67, 83, 47, 66, 46, 84, 88, 84>>,
      \* "DOCS"
      <<68, 79, 67, 83>>,
      \* "/DOCS/SUB"
      <<47, 68, 79, 67, 83, 47, 83, 85, 66>>,
      \* "nonexistent.txt"
      <<110, 111, 110, 101, 120, 105, 115, 116, 101, 110, 116, 46, 116, 120, 116>>,
      \* "README.TXT"
      <<82, 69, 65, 68, 77, 69, 46, 84, 88, 84>>,
      \* "sub/a.txt"
      <<115, 117, 98, 47, 97, 46, 116, 120, 116>>,
      \* "/DOCS/../A.TXT"
      <<47, 68, 79, 67, 83, 47, 46, 46, 47, 65, 46, 84, 88, 84>>,
      \* "/LOOP/X"
      <<47, 76, 79, 79, 80, 47, 88>>,
      \* "empty.txt"
      <<101, 109, 112, 116, 121, 46, 116, 120, 116>>
    }

-----------------------------------------------------------------------------
(* The navigator as a state machine: mount, then any sequence of calls *)

Self == [device |-> device, current_directory |-> current_directory]

NoCall == [op |-> "none", path |-> <<>>, k |-> "", e |-> "", v |-> <<>>,
           rd |-> <<>>, pre |-> 0]

Returned(k) == k \in {"Ok", "Err"}

Init ==
    /\ device \in {Images[vol] : vol \in DOMAIN Images}
    /\ overflow_checks \in BOOLEAN
    /\ state = "unmounted"
    /\ current_directory = 0
    /\ last = NoCall
    /\ fat_cache = <<>>
    /\ walk = <<>>
    /\ fat_last = <<>>

Mount ==
    /\ state = "unmounted"
    /\ \E r \in {new(device)} :
           /\ state' = IF r.k = "Ok" THEN "mounted" ELSE "mount_failed"
           /\ current_directory' = IF r.k = "Ok" THEN current_dir(r.v[1]) ELSE 0
           /\ last' = [NoCall EXCEPT !.op = "new", !.k = r.k, !.e = r.e]
    /\ UNCHANGED <<device, overflow_checks, fat_cache, walk, fat_last>>

ChangeDir ==
    /\ state = "mounted"
    /\ \E path \in DirPaths : \E r \in {change_dir(Self, overflow_checks, path)} :
           /\ current_directory' = current_dir(r.v)
           /\ state' = IF Returned(r.k) THEN "mounted" ELSE "dead"
           /\ last' = [op |-> "change_dir", path |-> path, k |-> r.k, e |-> r.e,
                       v |-> <<>>, rd |-> r.rd, pre |-> current_directory]
    /\ UNCHANGED <<device, overflow_checks, fat_cache, walk, fat_last>>

ListDir ==
    /\ state = "mounted"
    /\ \E path \in {<<>>} \cup {<<p>> : p \in DirPaths} :
       \E r \in {list_dir(Self, overflow_checks, path)} :
           /\ state' = IF Returned(r.k) THEN "mounted" ELSE "dead"
           /\ last' = [op |-> "list_dir", path |-> path, k |-> r.k, e |-> r.e,
                       v |-> r.v, rd |-> r.rd, pre |-> current_directory]
    /\ UNCHANGED <<device, overflow_checks, current_directory, fat_cache, walk, fat_last>>

ReadFile ==
    /\ state = "mounted"
    /\ \E path \in FilePaths : \E r \in {read_file(Self, overflow_checks, path)} :
           /\ state' = IF Returned(r.k) THEN "mounted" ELSE "dead"
           /\ last' = [op |-> "read_file", path |-> path, k |-> r.k, e |-> r.e,
                       v |-> r.v, rd |-> r.rd, pre |-> current_directory]
    /\ UNCHANGED <<device, overflow_checks, current_directory, fat_cache, walk, fat_last>>

Next ==
    \/ Mount
    \/ ChangeDir
    \/ ListDir
    \/ ReadFile

Spec == Init /\ [][Next]_vars


-----------------------------------------------------------------------------
(* The FAT walker on its own: a FatTable over a device with a valid boot   *)
(* sector, next_cluster calls and cluster_chain run one iteration at a     *)
(* time.                                                                   *)

\* the longest chain the model lets cluster_chain build before it stops
\* following a walk that has not ended
MaxChainLen == 6

ClusterInputs ==
    {0, 1, 2, 3, 5, 6, 7, 10, 12, 13, 14, 15, 16, 17, 127, 128, 6000,
     1073741826, 1073741829, 1073741952}

ChainStarts == {0, 1, 2, 5, 6, 10, 12, 14, 16, 17, 6000, 1073741829}

Table == [dev |-> device, cache |-> fat_cache]

\* a next_cluster call as fat_last records it
CallRecord(cluster, r, pre) ==
    [cluster |-> cluster, k |-> r.k, e |-> r.e, v |-> r.v, rd |-> r.rd,
     pre |-> pre, post |-> r.t.cache]

InitFat ==
    /\ device \in {Images[vol] : vol \in {v \in DOMAIN Images :
                                            validate(Boots[v]) = "Ok"}}
    /\ overflow_checks \in BOOLEAN
    /\ state = "unmounted"
    /\ current_directory = 0
    /\ last = NoCall
    /\ fat_cache = <<>>
    /\ walk = <<>>
    /\ fat_last = <<>>

NextClusterCall ==
    /\ state # "dead"
    /\ walk = <<>>
    /\ \E cluster \in ClusterInputs :
       \E r \in {next_cluster(Table, overflow_checks, cluster)} :
           /\ fat_cache' = r.t.cache
           /\ fat_last' = <<CallRecord(cluster, r, fat_cache)>>
           /\ state' = IF Returned(r.k) THEN state ELSE "dead"
    /\ UNCHANGED <<device, overflow_checks, current_directory, last, walk>>

ChainBegin ==
    /\ state # "dead"
    /\ walk = <<>>
    /\ \E start_cluster \in ChainStarts :
           walk' = <<[start |-> start_cluster, calls |-> <<>>,
                      w |-> ChainStart(Table, start_cluster)]>>
    /\ UNCHANGED <<device, overflow_checks, state, current_directory, last,
                   fat_cache, fat_last>>

ChainStep ==
    /\ walk # <<>>
    /\ walk[1].w.pc = "loop"
    /\ Len(walk[1].w.chain) < MaxChainLen
    /\ \E n \in {next_cluster(walk[1].w.t, overflow_checks, walk[1].w.current)} :
        LET call == CallRecord(walk[1].w.current, n, walk[1].w.t.cache)
        IN  /\ walk' = <<[walk[1] EXCEPT !.w = ChainMatch(@, n),
                                          !.calls = Append(@, call)]>>
            /\ fat_cache' = n.t.cache
            /\ fat_last' = <<call>>
            /\ state' = IF Returned(n.k) THEN state ELSE "dead"
    /\ UNCHANGED <<device, overflow_checks, current_directory, last>>

ChainReturn ==
    /\ walk # <<>>
    /\ walk[1].w.pc \in {"ok", "err"}
    /\ walk' = <<>>
    /\ UNCHANGED <<device, overflow_checks, state, current_directory, last,
                   fat_cache, fat_last>>

NextFat ==
    \/ NextClusterCall
    \/ ChainBegin
    \/ ChainStep
    \/ ChainReturn

\* cluster_chain is a plain loop: while it is in the loop it takes its next
\* iteration
SpecFat == InitFat /\ [][NextFat]_vars /\ WF_vars(ChainStep)


-----------------------------------------------------------------------------
(* Claims about the FAT walker (checked under SpecFat) *)

Walking == walk # <<>> /\ walk[1].w.pc = "loop"

\* the walk is back at a cluster it has already pushed
Revisits == walk # <<>> /\ walk[1].w.current \in Range(walk[1].w.chain)

\* a chain that cluster_chain returns starts with the start cluster, and each
\* later element is what next_cluster returned for the element before it;
\* the call for the last element returned EndOfChain
ChainShape ==
    (walk # <<>> /\ walk[1].w.pc = "ok") =>
        LET chain == walk[1].w.chain
            calls == walk[1].calls
            n == Len(chain)
        IN  /\ n >= 1
            /\ chain[1] = walk[1].start
            /\ Len(calls) = n
            /\ \A i \in 1..n : calls[i].cluster = chain[i]
            /\ \A i \in 2..n : calls[i - 1].k = "Ok" /\ chain[i] = calls[i - 1].v
            /\ calls[n].k = "Err" /\ calls[n].e = "EndOfChain"

\* C4: cluster_chain returns, when it succeeds, the start cluster followed by
\* the successors next_cluster gave, in order; a walk that never comes back to
\* a cluster it has pushed ends (with the chain, an error or a panic); a walk
\* that has come back to a pushed cluster is never ended by a later iteration.
C4_ChainWalk ==
    /\ []ChainShape
    /\ Walking ~> (~Walking \/ Revisits)
    /\ [][(Walking /\ Revisits) => Walking']_vars

\* C4 witness: cluster_chain has returned a chain of three clusters
C4_Witness ==
    /\ walk # <<>>
    /\ walk[1].w.pc = "ok"
    /\ Len(walk[1].w.chain) = 3
    /\ walk[1].w.chain[3] # walk[1].start

\* the FAT entry of cluster c as the claim names it: the four bytes at byte
\* offset c * 4 of the FAT region, or <<>> when they lie beyond the device
EntryAt(c) ==
    LET b == BootOf(device)
        base == first_fat_sector(b) * bytes_per_sector(b)
    IN  IF c > Len(device) \/ base + 4 * c + 4 > Len(device)
        THEN <<>>
        ELSE SubSeq(device, base + 4 * c + 1, base + 4 * c + 4)

\* the low 28 bits of a stored entry
Low28(bytes) ==
    bytes[1] + 256 * bytes[2] + 65536 * bytes[3] + 16777216 * (bytes[4] % 16)

\* C5: next_cluster(c) fails with InvalidCluster and no device read for c < 2;
\* otherwise its outcome is decided by the low 28 bits of the entry at byte
\* offset c * 4 of the FAT region: InvalidCluster for 0 and 1, EndOfChain for
\* 0x0FFFFFF8..0x0FFFFFFF, Ok(value) otherwise; an entry that lies beyond the
\* device cannot be read (IoError).
C5_NextClusterContract ==
    fat_last # <<>> =>
        LET f == fat_last[1]
            bytes == EntryAt(f.cluster)
            m == Low28(bytes)
        IN  IF f.cluster < 2
            THEN f.k = "Err" /\ f.e = "InvalidCluster" /\ f.rd = <<>>
            ELSE IF bytes = <<>>
            THEN f.k = "Err" /\ f.e = "IoError"
            ELSE IF m = 0 \/ m = 1
            THEN f.k = "Err" /\ f.e = "InvalidCluster"
            ELSE IF m >= 268435448
            THEN f.k = "Err" /\ f.e = "EndOfChain"
            ELSE f.k = "Ok" /\ f.v = m


-----------------------------------------------------------------------------
(* Claims about the navigator (checked under Spec).  The volume as the     *)
(* claims name it is read off the image bytes, not through the navigator.  *)

\* the navigator as it was when the last call was made
SelfBefore == [device |-> device, current_directory |-> last.pre]

RootCluster == LE32(SubSeq(device, 1, 512), 44)

\* the raw contents of data cluster c, or <<>> when c is no cluster that lies
\* wholly on the device
RawCluster(c) ==
    LET b == SubSeq(device, 1, 512)
        size == U8(b, 13) * LE16(b, 11)
        first == (LE16(b, 14) + U8(b, 16) * LE32(b, 36)) * LE16(b, 11)
    IN  IF c < 2 \/ c > Len(device)
           \/ first + (c - 1) * size > Len(device)
        THEN <<>>
        ELSE SubSeq(device, first + (c - 2) * size + 1,
                    first + (c - 1) * size)

\* the FAT chain from c: each cluster followed by the low 28 bits of its
\* entry, up to an end-of-chain entry; <<>> when the chain is not well formed
\* (a cluster below 2 or beyond the device, an entry of 0 or 1, a cycle)
RECURSIVE FatWalk(_, _)
FatWalk(c, seen) ==
    IF c < 2 \/ EntryAt(c) = <<>> \/ c \in Range(seen) THEN <<>>
    ELSE IF Low28(EntryAt(c)) >= 268435448 THEN Append(seen, c)
    ELSE FatWalk(Low28(EntryAt(c)), Append(seen, c))

FatChain(c) == FatWalk(c, <<>>)

\* the raw contents of the clusters cs, one after the other; <<>> when one of
\* them is not on the device
RECURSIVE RawBytes(_)
RawBytes(cs) ==
    IF cs = <<>> THEN <<>>
    ELSE IF Len(cs) = 1 THEN RawCluster(cs[1])
    ELSE IF RawCluster(cs[1]) = <<>> \/ RawBytes(Tail(cs)) = <<>> THEN <<>>
    ELSE RawCluster(cs[1]) \o RawBytes(Tail(cs))

\* C1: after a successful mount the current directory is the boot record's
\* root cluster; a change_dir that returns an error, and every list_dir and
\* read_file call, leaves the current directory as it was before the call.
C1_CurrentDirFrame ==
    /\ (last.op = "new" /\ last.k = "Ok") => current_directory = RootCluster
    /\ (last.op = "change_dir" /\ last.k = "Err") => current_directory = last.pre
    /\ last.op \in {"list_dir", "read_file"} => current_directory = last.pre

\* C1 witness: a change_dir made from a subdirectory whose target resolved
\* but could not be enumerated; the current directory is still the
\* subdirectory
C1_Witness ==
    /\ last.op = "change_dir"
    /\ last.k = "Err"
    /\ last.e = "InvalidCluster"
    /\ resolve_path(SelfBefore, overflow_checks, last.path).k = "Ok"
    /\ last.pre # RootCluster
    /\ current_directory = last.pre

\* the navigator of the same volume standing in the root directory
SelfAtRoot == [device |-> device, current_directory |-> RootCluster]

Absolute(path) == path # <<>> /\ path[1] = 47

\* C2: a call with an absolute path gives the same result whatever the
\* current directory is: the result of the last call is the result the same
\* call gives on the navigator of the same volume standing in the root.
C2_AbsoluteIndependent ==
    /\ (last.op = "change_dir" /\ Returned(last.k) /\ Absolute(last.path)) =>
          LET r == change_dir(SelfAtRoot, overflow_checks, last.path)
          IN  /\ r.k = last.k
              /\ r.e = last.e
              /\ r.k = "Ok" => current_dir(r.v) = current_directory
    /\ (last.op = "list_dir" /\ Returned(last.k) /\ last.path # <<>>
          /\ Absolute(last.path[1])) =>
          LET r == list_dir(SelfAtRoot, overflow_checks, last.path)
          IN  r.k = last.k /\ r.e = last.e /\ r.v = last.v
    /\ (last.op = "read_file" /\ Returned(last.k) /\ Absolute(last.path)) =>
          LET r == read_file(SelfAtRoot, overflow_checks, last.path)
          IN  r.k = last.k /\ r.e = last.e /\ r.v = last.v

\* the record read_file found for the last call
FileRecord ==
    LET pp == parse_path(SelfBefore, overflow_checks, last.path)
        entries == read_directory(device, overflow_checks, pp.v.dir_cluster)
        hits == {j \in 1..Len(entries.v) : FileNamed(entries.v[j], pp.v.name)}
    IN  IF pp.k = "Ok" /\ entries.k = "Ok" THEN Find(entries.v, hits) ELSE <<>>

\* C3: a successful read_file of a record with a non-zero file size returns
\* exactly file-size bytes: the prefix of that length of the raw contents of
\* the clusters of the chain from the record's first cluster, in chain order.
C3_ReadFileContent ==
    (last.op = "read_file" /\ last.k = "Ok" /\ FileRecord # <<>>
        /\ LE32(FileRecord[1], 28) # 0) =>
        LET size == LE32(FileRecord[1], 28)
            start == LE16(FileRecord[1], 20) * 65536 + LE16(FileRecord[1], 26)
            raw == RawBytes(FatChain(start))
        IN  /\ Len(last.v) = size
            /\ Len(raw) >= size
            /\ last.v = SubSeq(raw, 1, size)

\* the directory the last list_dir call was about
Target ==
    IF last.path = <<>>
    THEN [k |-> "Ok", e |-> "", v |-> last.pre, rd |-> <<>>]
    ELSE resolve_path(SelfBefore, overflow_checks, last.path[1])

\* the 32-byte records of data, in order
Records(data) ==
    [j \in 1..(Len(data) \div 32) |-> SubSeq(data, 32 * j - 31, 32 * j)]

\* the index of the first end record of recs, or Len(recs) + 1
FirstEnd(recs) ==
    LET ends == {j \in 1..Len(recs) : recs[j][1] = 0}
    IN  IF ends = {} THEN Len(recs) + 1
        ELSE CHOOSE j \in ends : \A h \in ends : j <= h

\* neither free, nor long-name, nor volume-id
Kept(rec) ==
    rec[1] # 229 /\ rec[12] % 16 # 15 /\ (rec[12] \div 8) % 2 = 0

\* what the enumeration of the directory at cluster c is to return
Listing(c) ==
    LET recs == Records(RawBytes(FatChain(c)))
    IN  SelectSeq(SubSeq(recs, 1, FirstEnd(recs) - 1), Kept)

\* C6: list_dir of a directory whose chain is well formed returns the records
\* before the first end record of the chain's clusters that are neither free,
\* nor long-name, nor volume-id, in their on-disk order, and nothing else.
C6_Enumeration ==
    (last.op = "list_dir" /\ Target.k = "Ok"
        /\ RawBytes(FatChain(Target.v)) # <<>>) =>
        last.k = "Ok" /\ last.v = Listing(Target.v)

\* C6 witness: a listing of a directory of two clusters with a free record
\* before its first end record and a record that looks valid after it
C6_Witness ==
    /\ last.op = "list_dir"
    /\ last.k = "Ok"
    /\ Target.k = "Ok"
    /\ Len(FatChain(Target.v)) = 2
    /\ LET recs == Records(RawBytes(FatChain(Target.v)))
           stop == FirstEnd(recs)
       IN  /\ stop < Len(recs)
           /\ \E j \in 1..(stop - 1) : recs[j][1] = 229
           /\ \E j \in (stop + 1)..Len(recs) : recs[j][1] # 0 /\ Kept(recs[j])
           /\ Len(last.v) > 0
           /\ Len(last.v) < stop - 1

\* the first record of the target's first cluster is an end record
TargetEmpty ==
    /\ last.op = "list_dir"
    /\ Target.k = "Ok"
    /\ RawCluster(Target.v) # <<>>
    /\ RawCluster(Target.v)[1] = 0

\* C7 as stated: list_dir of a directory whose first record is an end record
\* returns Ok with no entries, on any mounted volume.
C7_EmptyDirAlwaysOk ==
    TargetEmpty => last.k = "Ok" /\ last.v = <<>>

\* C7 amended: list_dir of a directory whose first record is an end record
\* returns Ok with no entries when the FAT chain from the directory's first
\* cluster is well formed; when the FAT entry of that cluster is 0 or 1 (as
\* on a volume whose FAT is zero-filled) it returns InvalidCluster.
C7_EmptyDirListing ==
    /\ (TargetEmpty /\ FatChain(Target.v) # <<>>) =>
          last.k = "Ok" /\ last.v = <<>>
    /\ (TargetEmpty /\ EntryAt(Target.v) # <<>>
          /\ Low28(EntryAt(Target.v)) < 2) =>
          last.k = "Err" /\ last.e = "InvalidCluster"

\* C7 witness: the listing of an empty subdirectory
C7_Witness ==
    /\ TargetEmpty
    /\ FatChain(Target.v) # <<>>
    /\ Target.v # RootCluster
    /\ last.k = "Ok"
    /\ last.v = <<>>

\* C8: read_file of a record whose file size is 0 returns Ok with no bytes,
\* and the device reads it made are those of the resolution of the containing
\* directory and of its enumeration, nothing after them, whatever the
\* record's first-cluster field holds.
C8_EmptyFile ==
    (last.op = "read_file" /\ FileRecord # <<>>
        /\ LE32(FileRecord[1], 28) = 0) =>
        LET pp == parse_path(SelfBefore, overflow_checks, last.path)
            entries == read_directory(device, overflow_checks, pp.v.dir_cluster)
        IN  /\ last.k = "Ok"
            /\ last.v = <<>>
            /\ last.rd = pp.rd \o entries.rd

\* C8 witness: a read of an empty file whose first-cluster field is 1
C8_Witness ==
    /\ last.op = "read_file"
    /\ FileRecord # <<>>
    /\ LE32(FileRecord[1], 28) = 0
    /\ LE16(FileRecord[1], 20) = 0
    /\ LE16(FileRecord[1], 26) = 1
    /\ last.k = "Ok"
    /\ last.rd # <<>>

\* a name with its ASCII capitals made small
Fold(name) ==
    [j \in 1..Len(name) |-> IF name[j] >= 65 /\ name[j] <= 90 THEN name[j] + 32
                            ELSE name[j]]

\* the first-cluster field of a record
ClusterField(rec) == (rec[21] + 256 * rec[22]) * 65536 + rec[27] + 256 * rec[28]

\* the records of entries the component names: directories other than the
\* "." and ".." records whose short name is the component, ASCII case aside
Named(entries, component) ==
    {j \in 1..Len(entries) :
        /\ (entries[j][12] \div 16) % 2 = 1
        /\ short_name(entries[j]) \notin {<<46>>, <<46, 46>>}
        /\ Fold(short_name(entries[j])) = Fold(component)}

\* the ".." records of entries
DotDots(entries) ==
    {j \in 1..Len(entries) : SubSeq(entries[j], 1, 3) = <<46, 46, 32>>}

First(hits) == CHOOSE j \in hits : \A h \in hits : j <= h

\* the cluster the components from the i-th on lead to from cluster current,
\* one step per component: [k, e, v], with the failure of an enumeration
\* passed on
RECURSIVE Steps(_, _, _)
Steps(components, i, current) ==
    IF i > Len(components) THEN [k |-> "Ok", e |-> "", v |-> current]
    ELSE IF components[i] \in {<<>>, <<46>>} THEN Steps(components, i + 1, current)
    ELSE
    LET entries == read_directory(device, overflow_checks, current)
        up == DotDots(entries.v)
        hits == Named(entries.v, components[i])
        parent == ClusterField(entries.v[First(up)])
    IN  IF entries.k # "Ok" THEN [k |-> entries.k, e |-> entries.e, v |-> 0]
        ELSE IF components[i] = <<46, 46>>
        THEN IF up = {} THEN [k |-> "Err", e |-> "NotFound", v |-> 0]
             ELSE Steps(components, i + 1,
                        IF parent = 0 THEN RootCluster ELSE parent)
        ELSE IF hits = {} THEN [k |-> "Err", e |-> "NotFound", v |-> 0]
        ELSE Steps(components, i + 1, ClusterField(entries.v[First(hits)]))

\* the cluster path is to resolve to from the directory the call was made in
Resolved(path) ==
    IF Absolute(path) THEN Steps(Split(Tail(path)), 1, RootCluster)
    ELSE IF path = <<>> THEN [k |-> "Ok", e |-> "", v |-> last.pre]
    ELSE Steps(Split(path), 1, last.pre)

\* the path of the last change_dir or list_dir(Some(path)) call, as <<path>>
ResolvedPath ==
    IF last.op = "change_dir" THEN <<last.path>>
    ELSE IF last.op = "list_dir" THEN last.path
    ELSE <<>>

HasDotDot(path) == \E j \in 1..Len(Split(path)) : Split(path)[j] = <<46, 46>>

\* the result of the last call agrees with the resolution r of its path: the
\* call fails as r fails, and a change_dir that succeeds moves to r's cluster
Agrees(r) ==
    LET x == resolve_path(SelfBefore, overflow_checks, ResolvedPath[1])
    IN  /\ x.k = r.k
        /\ x.k = "Ok" => x.v = r.v
        /\ x.k = "Err" => x.e = r.e
        /\ r.k = "Err" => last.k = "Err" /\ last.e = r.e
        /\ (last.op = "change_dir" /\ last.k = "Ok") => current_directory = r.v

\* C9: in the resolution of a path, a component other than "", "." and ".."
\* moves to the first-cluster field of the first enumerated entry that is a
\* directory, is not the "." or ".." record, and has the component as its
\* short name, ASCII case aside; with no such entry the resolution fails
\* with NotFound; "" and "." move nowhere, and a path with no components
\* resolves to the starting cluster.
C9_ComponentStep ==
    (ResolvedPath # <<>> /\ ~HasDotDot(ResolvedPath[1])) =>
        Agrees(Resolved(ResolvedPath[1]))

\* C9 witness: a change_dir to "/docs/sub", whose components are met in the
\* other case on the volume, has moved to the cluster of the second one
C9_Witness ==
    /\ last.op = "change_dir"
    /\ last.path = <<47, 100, 111, 99, 115, 47, 115, 117, 98>>
    /\ last.k = "Ok"
    /\ current_directory = 8
    /\ last.pre # 8

\* C10: a ".." component moves to the first-cluster field of the ".." record
\* of the enumeration of the resolved directory, a recorded 0 standing for
\* the root cluster; a directory with no ".." record makes it fail with
\* NotFound.
C10_DotDot ==
    (ResolvedPath # <<>> /\ HasDotDot(ResolvedPath[1])) =>
        /\ Agrees(Resolved(ResolvedPath[1]))
        /\ (last.path = <<47, 68, 79, 67, 83, 47, 46, 46>>
              /\ last.op = "change_dir" /\ RootCluster = 2 /\ last.k = "Ok") =>
              current_directory = RootCluster

\* C10 witness: a change_dir to "/DOCS/..", made from a subdirectory, has
\* moved to the root cluster through a ".." record that holds 0
C10_Witness ==
    /\ last.op = "change_dir"
    /\ last.path = <<47, 68, 79, 67, 83, 47, 46, 46>>
    /\ last.k = "Ok"
    /\ last.pre # RootCluster
    /\ current_directory = RootCluster
    /\ SubSeq(RawCluster(5), 33, 35) = <<46, 46, 32>>
    /\ ClusterField(SubSeq(RawCluster(5), 33, 64)) = 0

\* the indices of the records of entries that are no directory and have name
\* as their short name, ASCII case aside
FilesNamed(entries, name) ==
    {j \in 1..Len(entries) :
        /\ (entries[j][12] \div 16) % 2 = 0
        /\ Fold(short_name(entries[j])) = Fold(name)}

\* the last call's outcome is that of reading the file of record rec
ReadsRecord(rec) ==
    LET clusters == cluster_chain(FatTable_new(device), overflow_checks,
                                  ClusterField(rec))
        data == DataLoop(device, overflow_checks, clusters.v, 1, <<>>, <<>>)
    IN  IF LE32(rec, 28) = 0 THEN last.k = "Ok" /\ last.v = <<>>
        ELSE IF clusters.k # "Ok" THEN last.k = clusters.k /\ last.e = clusters.e
        ELSE IF data.k # "Ok" THEN last.k = data.k /\ last.e = data.e
        ELSE last.k = "Ok" /\ last.v = SubSeq(data.v, 1, Min(LE32(rec, 28), Len(data.v)))

\* C11: read_file reads the first enumerated entry of the containing
\* directory that has no directory attribute and has the leaf name as its
\* short name, ASCII case aside; with no such entry (a subdirectory of that
\* name does not count) it fails with NotFound and returns no data.
C11_FileLookup ==
    LET pp == parse_path(SelfBefore, overflow_checks, last.path)
        entries == read_directory(device, overflow_checks, pp.v.dir_cluster)
        hits == FilesNamed(entries.v, pp.v.name)
    IN  (last.op = "read_file" /\ pp.k = "Ok" /\ entries.k = "Ok") =>
            IF hits = {}
            THEN last.k = "Err" /\ last.e = "NotFound" /\ last.v = <<>>
            ELSE ReadsRecord(entries.v[First(hits)])

\* C11 witness: a read_file of "/DOCS/SUB", a name only a subdirectory of the
\* containing directory has, has failed with NotFound
C11_Witness ==
    /\ last.op = "read_file"
    /\ last.path = <<47, 68, 79, 67, 83, 47, 83, 85, 66>>
    /\ \E j \in 1..(Len(RawCluster(5)) \div 32) :
           /\ Fold(short_name(Records(RawCluster(5))[j])) = <<115, 117, 98>>
           /\ (Records(RawCluster(5))[j][12] \div 16) % 2 = 1
    /\ last.k = "Err"
    /\ last.e = "NotFound"
    /\ last.v = <<>>


-----------------------------------------------------------------------------
(* Boot records on their own: a device whose sector 0 holds any of a range *)
(* of signatures, sector sizes and FAT counts, or a device too short to    *)
(* hold a sector; validate is called on the record and the volume mounted. *)

BootSignatures == {0, 40, 41, 42, 170}

BootSectorSizes == {0, 256, 512, 513, 1024, 2048, 4096, 8192}

BootFatCounts == {0, 1, 2, 255}

BootDevices ==
    {BootBytes([StdBoot EXCEPT !.sig = sig, !.bps = bps, !.nf = nf]) :
        sig \in BootSignatures, bps \in BootSectorSizes, nf \in BootFatCounts}
    \cup {Zeros(100)}

InitBoot ==
    /\ device \in BootDevices
    /\ overflow_checks \in BOOLEAN
    /\ state = "unmounted"
    /\ current_directory = 0
    /\ last = NoCall
    /\ fat_cache = <<>>
    /\ walk = <<>>
    /\ fat_last = <<>>

\* BootSector::from_bytes on a 512-byte buffer, then validate
ValidateCall ==
    /\ state = "unmounted"
    /\ Len(device) >= 512
    /\ \E r \in {validate(BootOf(device))} :
           last' = [NoCall EXCEPT !.op = "validate",
                                  !.k = IF r = "Ok" THEN "Ok" ELSE "Err",
                                  !.e = IF r = "Ok" THEN "" ELSE r]
    /\ UNCHANGED <<device, overflow_checks, state, current_directory,
                   fat_cache, walk, fat_last>>

NextBoot ==
    \/ ValidateCall
    \/ Mount

SpecBoot == InitBoot /\ [][NextBoot]_vars

\* the boot record of the device has a signature of 0x28 or 0x29, a sector
\* size of 512, 1024, 2048 or 4096 and at least one FAT
GoodBoot ==
    /\ device[67] \in {40, 41}
    /\ device[12] + 256 * device[13] \in {512, 1024, 2048, 4096}
    /\ device[17] >= 1

\* C12: validate returns Ok exactly for the boot records with a signature of
\* 0x28 or 0x29, a sector size of 512, 1024, 2048 or 4096 and at least one
\* FAT, and InvalidBootSector for every other; a mount succeeds, standing in
\* the record's root cluster, exactly for these records, fails with
\* InvalidBootSector for the others, and fails with the device's error when
\* sector 0 cannot be read.
C12_Validate ==
    /\ last.op = "validate" =>
          /\ last.k = "Ok" <=> GoodBoot
          /\ ~GoodBoot => last.k = "Err" /\ last.e = "InvalidBootSector"
    /\ last.op = "new" =>
          IF Len(device) < 512
          THEN last.k = "Err" /\ last.e = "IoError" /\ state = "mount_failed"
          ELSE IF GoodBoot
          THEN /\ last.k = "Ok"
               /\ state = "mounted"
               /\ current_directory = LE32(device, 44)
          ELSE last.k = "Err" /\ last.e = "InvalidBootSector"
               /\ state = "mount_failed"

\* C12 witness: the mount of a record with a good signature and sector size
\* and no FAT has failed with InvalidBootSector
C12_Witness ==
    /\ last.op = "new"
    /\ Len(device) >= 512
    /\ device[67] = 41
    /\ device[12] + 256 * device[13] = 4096
    /\ device[17] = 0
    /\ last.k = "Err"
    /\ last.e = "InvalidBootSector"
    /\ state = "mount_failed"


\* C13: no call panics or fails to return: every list_dir, change_dir and
\* read_file on a mounted volume returns Ok or an error value, whatever the
\* FAT and the directory records hold.
C13_NoPanic ==
    last.op \in {"list_dir", "change_dir", "read_file"} => Returned(last.k)


\* how the walk of the FAT chain from c ends, read off the FAT bytes: "Ok" at
\* an end-of-chain entry, "InvalidCluster" at a cluster below 2 or an entry
\* of 0 or 1, "IoError" at an entry that lies beyond the device; "Cycle" when
\* the chain comes back to a cluster of seen, "Overflow" at a cluster whose
\* byte offset in the FAT does not fit 32 bits
RECURSIVE RawOutcome(_, _)
RawOutcome(c, seen) ==
    IF c < 2 THEN "InvalidCluster"
    ELSE IF c >= 1073741824 THEN "Overflow"
    ELSE IF c \in seen THEN "Cycle"
    ELSE IF EntryAt(c) = <<>> THEN "IoError"
    ELSE IF Low28(EntryAt(c)) < 2 THEN "InvalidCluster"
    ELSE IF Low28(EntryAt(c)) >= 268435448 THEN "Ok"
    ELSE RawOutcome(Low28(EntryAt(c)), seen \cup {c})

\* cluster_chain from start: it ends as the FAT bytes say, never with
\* EndOfChain, and with no chain when it fails
ChainOutcome(start) ==
    LET cc == cluster_chain(FatTable_new(device), overflow_checks, start)
    IN  RawOutcome(start, {}) \in {"Ok", "InvalidCluster", "IoError"} =>
            /\ cc.k = (IF RawOutcome(start, {}) = "Ok" THEN "Ok" ELSE "Err")
            /\ cc.k = "Err" => cc.e = RawOutcome(start, {}) /\ cc.v = <<>>
            /\ cc.k = "Ok" => cc.v # <<>>

\* the directory the last change_dir or list_dir call enumerated
Walked ==
    IF last.op = "change_dir"
    THEN resolve_path(SelfBefore, overflow_checks, last.path)
    ELSE Target

\* C14: cluster_chain never returns EndOfChain: the walk that meets an
\* end-of-chain entry succeeds, and any other failure of next_cluster is the
\* result, with no chain; list_dir, change_dir and read_file never return
\* EndOfChain, and they fail with the failure of the path resolution, or else
\* with that of the chain of the directory (or file) they go on to read.
C14_ErrorPropagation ==
    /\ \A start \in ChainStarts : ChainOutcome(start)
    /\ last.op \in {"change_dir", "list_dir", "read_file"} =>
          ~(last.k = "Err" /\ last.e = "EndOfChain")
    /\ last.op \in {"change_dir", "list_dir"} =>
          /\ ChainOutcome(Walked.v)
          /\ Walked.k = "Err" => last.k = "Err" /\ last.e = Walked.e
          /\ (Walked.k = "Ok"
                /\ RawOutcome(Walked.v, {}) \in {"InvalidCluster", "IoError"}) =>
                last.k = "Err" /\ last.e = RawOutcome(Walked.v, {})
    /\ (last.op = "read_file" /\ FileRecord # <<>> /\ LE32(FileRecord[1], 28) # 0
          /\ RawOutcome(ClusterField(FileRecord[1]), {})
                \in {"InvalidCluster", "IoError"}) =>
          last.k = "Err" /\ last.e = RawOutcome(ClusterField(FileRecord[1]), {})

\* C14 witness: a list_dir of a directory whose chain meets an entry of 1
\* after its first cluster has failed with InvalidCluster
C14_Witness ==
    /\ last.op = "list_dir"
    /\ Walked.k = "Ok"
    /\ Walked.v >= 2
    /\ EntryAt(Walked.v) # <<>>
    /\ Low28(EntryAt(Walked.v)) >= 2
    /\ RawOutcome(Walked.v, {}) = "InvalidCluster"
    /\ last.k = "Err"
    /\ last.e = "InvalidCluster"


-----------------------------------------------------------------------------
(* The cache of the FAT walker (checked under SpecFat) *)

\* the bytes of sector s of the device as a FAT sector, or <<>> when they do
\* not lie on the device
FatSectorBytes(s) ==
    IF 512 * s + LE16(device, 11) > Len(device) THEN <<>>
    ELSE SubSeq(device, 512 * s + 1, 512 * s + LE16(device, 11))

\* cache holds no pair, or one pair of a sector number and the bytes of that
\* sector on the device
CachedRight(cache) ==
    /\ Len(cache) <= 1
    /\ cache # <<>> =>
          /\ FatSectorBytes(cache[1].sector) # <<>>
          /\ cache[1].data = FatSectorBytes(cache[1].sector)

\* the FAT sector that holds the entry of cluster c
FatSectorOf(c) == LE16(device, 14) + c \div (LE16(device, 11) \div 4)

\* C15: the FAT walker's cache holds at most one pair of a sector number and
\* that sector's bytes on the device; a next_cluster call whose FAT sector is
\* the cached one reads nothing from the device and leaves the pair, a call
\* for another sector makes one read of that sector and replaces the pair
\* with what it read, or leaves the pair when the read fails; the result of
\* every call is that of a walker with no cached pair.
C15_SingleSlotCache ==
    /\ CachedRight(fat_cache)
    /\ fat_last # <<>> =>
          LET f == fat_last[1]
              u == next_cluster(FatTable_new(device), overflow_checks, f.cluster)
              s == FatSectorOf(f.cluster)
          IN  /\ f.k = u.k /\ f.e = u.e /\ f.v = u.v
              /\ CachedRight(f.pre)
              /\ CachedRight(f.post)
              /\ Len(f.rd) <= 1
              /\ f.rd = <<>> => f.post = f.pre
              /\ (f.cluster >= 2 /\ f.cluster < 1073741824) =>
                    IF f.pre # <<>> /\ f.pre[1].sector = s
                    THEN f.rd = <<>>
                    ELSE /\ f.rd = <<Wide(s)>>
                         /\ f.post = IF FatSectorBytes(s) = <<>> THEN f.pre
                                     ELSE <<[sector |-> s, data |-> FatSectorBytes(s)]>>

\* C15 witness: a call for a sector other than the cached one has read that
\* sector and replaced the cached pair
C15_Witness ==
    /\ fat_last # <<>>
    /\ fat_last[1].pre # <<>>
    /\ fat_last[1].cluster >= 2
    /\ fat_last[1].cluster < 1073741824
    /\ fat_last[1].pre[1].sector # FatSectorOf(fat_last[1].cluster)
    /\ fat_last[1].rd = <<Wide(FatSectorOf(fat_last[1].cluster))>>
    /\ fat_last[1].post # fat_last[1].pre
    /\ fat_cache = fat_last[1].post
    /\ fat_cache[1].sector = FatSectorOf(fat_last[1].cluster)


-----------------------------------------------------------------------------
(* The clusters whose data the navigator reads (checked under Spec) *)

\* the sectors of the data clusters cs, as u32 halves
DataSectors(cs) ==
    LET spc == U8(device, 13)
        fds == LE16(device, 14) + U8(device, 16) * LE32(device, 36)
    IN  {WideAdd(WideAdd(WideMul(Wide(cs[j] - 2), spc).w, Wide(fds)).w, Wide(i)).w :
            j \in {h \in 1..Len(cs) : cs[h] >= 2}, i \in 0..(spc - 1)}

\* the chain the last call went on to read the data of, once its path was
\* resolved (and, for read_file, its record found): on says there is one,
\* start is its first cluster and pre the device reads made before the walk
DataWalk ==
    IF last.op \in {"change_dir", "list_dir"}
    THEN [on |-> Walked.k = "Ok", start |-> Walked.v, pre |-> Walked.rd]
    ELSE IF last.op = "read_file" /\ FileRecord # <<>>
    THEN [on |-> LE32(FileRecord[1], 28) # 0,
          start |-> ClusterField(FileRecord[1]),
          pre |-> LET pp == parse_path(SelfBefore, overflow_checks, last.path)
                  IN  pp.rd \o read_directory(device, overflow_checks,
                                              pp.v.dir_cluster).rd]
    ELSE [on |-> FALSE, start |-> 0, pre |-> <<>>]

\* every cluster of a chain cluster_chain returns is at least 2
ChainAtLeastTwo(start) ==
    LET cc == cluster_chain(FatTable_new(device), overflow_checks, start)
    IN  cc.k = "Ok" => \A i \in 1..Len(cc.v) : cc.v[i] >= 2

\* C16: the data of a cluster is read only for the clusters of a chain that
\* cluster_chain returned, and these are all at least 2: after the reads of
\* the path resolution and of the FAT walk, every device read of a call is a
\* sector of a cluster of that chain; when the walk fails the call reads no
\* data sector, and a first cluster of 0 or 1 makes the call fail with
\* InvalidCluster before any read of the FAT or of the data.
C16_ClusterAtLeastTwo ==
    /\ \A start \in ChainStarts : ChainAtLeastTwo(start)
    /\ DataWalk.on =>
          LET cc == cluster_chain(FatTable_new(device), overflow_checks,
                                  DataWalk.start)
              walked == DataWalk.pre \o cc.rd
          IN  /\ ChainAtLeastTwo(DataWalk.start)
              /\ Len(last.rd) >= Len(walked)
              /\ SubSeq(last.rd, 1, Len(walked)) = walked
              /\ cc.k # "Ok" => last.rd = walked /\ last.k = cc.k /\ last.e = cc.e
              /\ cc.k = "Ok" =>
                    \A j \in (Len(walked) + 1)..Len(last.rd) :
                        last.rd[j] \in DataSectors(cc.v)
              /\ DataWalk.start < 2 =>
                    /\ last.k = "Err"
                    /\ last.e = "InvalidCluster"
                    /\ last.rd = DataWalk.pre

\* C16 witness: a list_dir of a directory whose record holds a first cluster
\* of 0 has failed with InvalidCluster, with no read after those of the
\* resolution of its path
C16_Witness ==
    /\ last.op = "list_dir"
    /\ last.path # <<>>
    /\ Walked.k = "Ok"
    /\ Walked.v = 0
    /\ Walked.rd # <<>>
    /\ last.k = "Err"
    /\ last.e = "InvalidCluster"
    /\ last.rd = Walked.rd

=============================================================================
